---- MODULE Spec2Model ----
(***************************************************************************)
(* CymbalFlix: ratings aggregate maintenance.                              *)
(*                                                                         *)
(*   - POST /api/movies/:id/rate   (server/routes/api.js)                  *)
(*   - admin/merge_duplicates.js   (mergeDuplicates)                       *)
(*   - admin/find_duplicates.js    (findDuplicates)                        *)
(*   - db/import.js                (calculateMovieStats: the stored        *)
(*                                  aggregates of a freshly loaded store)  *)
(*   - db/connection.js            (connect, getDb, close: the shared      *)
(*                                  client and db of one node process)     *)
(*                                                                         *)
(* The store is the document database behind the MongoDB driver.  Every    *)
(* driver call is one atomic step per document it touches.  Numbers:       *)
(* a rating value is kept in tenths (4.5 is 45).  In the store an average  *)
(* is an exact fraction in lowest terms, so 3.67 and 11/3 are different    *)
(* values; on values of the 0.5 step this is what the doubles of the code  *)
(* give.  The aggregate computation by itself is also modelled in doubles  *)
(* (53-bit significand, round to nearest even), for values off the step.   *)
(***************************************************************************)
EXTENDS Integers, Sequences, FiniteSets, TLC

(* ------------------------------ bounds --------------------------------- *)

\* most rating events the store ever holds
MaxRatings == 3

(* --------------------------- value domain ------------------------------ *)

\* a JSON / path / argv value as the handler receives it
Num(v) == [k |-> "num", v |-> v]
Undefined == [k |-> "undefined", v |-> 0]
Str == [k |-> "str", v |-> 0]
\* a JSON string holding a number, such as "0"
NumStr(v) == [k |-> "numstr", v |-> v]

\* JavaScript truthiness of a received value: undefined and 0 are falsy, a
\* non-empty string ("0" too) is not
Falsy(x) == x.k = "undefined" \/ (x.k = "num" /\ x.v = 0)

\* isNaN(parseInt(x)) / isNaN(parseFloat(x)): anything that is not numeric
ParsesNaN(x) == x.k \notin {"num", "numstr"}

\* the number parseInt / parseFloat returns for a numeric value
ParseNum(x) == x.v

\* an average: an exact fraction in lowest terms; 0/0 is NaN
NaN == [num |-> 0, den |-> 0]
Zero == [num |-> 0, den |-> 1]

RECURSIVE GCD(_, _)
GCD(a, b) == IF b = 0 THEN a ELSE GCD(b, a % b)

Frac(n, d) == LET g == GCD(n, d) IN [num |-> n \div g, den |-> d \div g]

\* acc + r.rating folded over an array of rating values (tenths)
RECURSIVE Reduce(_)
Reduce(s) == IF s = <<>> THEN 0 ELSE Head(s) + Reduce(Tail(s))

\* Math.round(x * 100) / 100 for x = total / length, total in tenths:
\* x * 100 = 10 * total / length, Math.round is floor(y + 1/2)
RoundedMean(total, length) ==
    IF length = 0 THEN NaN
    ELSE Frac((20 * total + length) \div (2 * length), 100)

\* total / length with no rounding
PlainMean(total, length) == Frac(total, 10 * length)

\* ascending sequence of a finite set of integers
RECURSIVE SortAsc(_)
SortAsc(S) ==
    IF S = {} THEN <<>>
    ELSE LET m == CHOOSE x \in S : \A y \in S : x <= y
         IN <<m>> \o SortAsc(S \ {m})

Range(s) == {s[i] : i \in DOMAIN s}

(* ------------------- JavaScript numbers (IEEE 754 doubles) ------------- *)

\* A natural number in binary, least significant bit first, no leading zero;
\* <<>> is 0.  A double is m * 2^e with m odd (or 0) and at most 53 bits long.
RECURSIVE ToBits(_)
ToBits(n) == IF n = 0 THEN <<>> ELSE <<n % 2>> \o ToBits(n \div 2)

RECURSIVE FromBits(_)
FromBits(b) == IF b = <<>> THEN 0 ELSE b[1] + 2 * FromBits(Tail(b))

\* the same numbers in digits of DigitBits bits each, least significant first:
\* the arithmetic below is done digit by digit
DigitBits == 10
Base == 1024

Digits(b) ==
    [j \in 1..((Len(b) + DigitBits - 1) \div DigitBits) |->
       FromBits(SubSeq(b, (j - 1) * DigitBits + 1,
                       IF j * DigitBits < Len(b) THEN j * DigitBits ELSE Len(b)))]

\* the bits of a digit sequence, leading zeros removed
BitsOf(d) ==
    LET all == [i \in 1..(Len(d) * DigitBits) |->
                  (d[((i - 1) \div DigitBits) + 1] \div (2 ^ ((i - 1) % DigitBits))) % 2]
        ones == {i \in DOMAIN all : all[i] = 1}
    IN IF ones = {} THEN <<>>
       ELSE SubSeq(all, 1, CHOOSE i \in ones : \A j \in ones : j <= i)

RECURSIVE AddDigits(_, _, _)
AddDigits(a, b, carry) ==
    IF a = <<>> /\ b = <<>> THEN (IF carry = 0 THEN <<>> ELSE <<carry>>)
    ELSE LET x == IF a = <<>> THEN 0 ELSE a[1]
             y == IF b = <<>> THEN 0 ELSE b[1]
             t == x + y + carry
         IN <<t % Base>> \o AddDigits(IF a = <<>> THEN <<>> ELSE Tail(a),
                                      IF b = <<>> THEN <<>> ELSE Tail(b), t \div Base)

AddBits(a, b) == BitsOf(AddDigits(Digits(a), Digits(b), 0))

ShiftLeft(b, k) == IF b = <<>> THEN <<>> ELSE [i \in 1..k |-> 0] \o b
ShiftRight(b, k) == IF k >= Len(b) THEN <<>> ELSE SubSeq(b, k + 1, Len(b))

\* d divided by the small number n: quotient digits and remainder
RECURSIVE DivDigits(_, _)
DivDigits(d, n) ==
    IF d = <<>> THEN [q |-> <<>>, r |-> 0]
    ELSE LET hi == DivDigits(Tail(d), n)
             cur == Base * hi.r + d[1]
         IN [q |-> <<cur \div n>> \o hi.q, r |-> cur % n]

DivBits(b, n) ==
    LET d == DivDigits(Digits(b), n) IN [q |-> BitsOf(d.q), r |-> d.r]

\* m * 2^e with the trailing zero bits of m moved into the exponent
Canonical(m, e) ==
    IF m = <<>> THEN [m |-> <<>>, e |-> 0]
    ELSE LET z == CHOOSE i \in DOMAIN m : m[i] = 1 /\ \A j \in 1..(i - 1) : m[j] = 0
         IN [m |-> SubSeq(m, z, Len(m)), e |-> e + z - 1]

\* the double nearest to m * 2^e (plus a non-zero rest below the last bit when
\* inexact): round to 53 significant bits, ties to even
SignificandBits == 53
RoundToDouble(m, e, inexact) ==
    IF Len(m) <= SignificandBits THEN Canonical(m, e)
    ELSE LET k == Len(m) - SignificandBits
             rest == inexact \/ \E i \in 1..(k - 1) : m[i] = 1
             up == m[k] = 1 /\ (rest \/ m[k + 1] = 1)
             kept == ShiftRight(m, k)
         IN Canonical(IF up THEN AddBits(kept, <<1>>) ELSE kept, e + k)

DoubleOf(n) == Canonical(ToBits(n), 0)

\* x + y
DoubleAdd(x, y) ==
    LET e == IF x.e < y.e THEN x.e ELSE y.e
    IN IF x.m = <<>> THEN y
       ELSE IF y.m = <<>> THEN x
       ELSE RoundToDouble(AddBits(ShiftLeft(x.m, x.e - e), ShiftLeft(y.m, y.e - e)),
                          e, FALSE)

\* x / n for a small integer n > 0
QuotientBits == 60
DoubleDiv(x, n) ==
    LET d == DivBits(ShiftLeft(x.m, QuotientBits), n)
    IN RoundToDouble(d.q, x.e - QuotientBits, d.r # 0)

\* x * 100
DoubleTimes100(x) ==
    RoundToDouble(AddBits(AddBits(ShiftLeft(x.m, 6), ShiftLeft(x.m, 5)),
                          ShiftLeft(x.m, 2)),
                  x.e, FALSE)

\* Math.round(x): floor(x + 1/2), exactly
MathRound(x) ==
    IF x.e >= 0 THEN FromBits(ShiftLeft(x.m, x.e))
    ELSE FromBits(ShiftRight(AddBits(x.m, ShiftLeft(<<1>>, (-x.e) - 1)), -x.e))

\* the double a rating value written with one decimal (tenths) parses to
RatingDouble(tenths) == DoubleDiv(DoubleOf(tenths), 10)

\* allRatings.reduce((sum, r) => sum + r.rating, 0), left to right, in doubles
RECURSIVE ReduceDouble(_, _)
ReduceDouble(sum, s) ==
    IF s = <<>> THEN sum
    ELSE ReduceDouble(DoubleAdd(sum, RatingDouble(Head(s))), Tail(s))

\* 0 / 0
NaNDouble == [m |-> <<>>, e |-> -1]

\* the rating handler's aggregate of the array its find returned:
\* Math.round((totalRating / allRatings.length) * 100) / 100, allRatings.length
SubmitAggregateDouble(allRatings) ==
    LET totalRating == ReduceDouble(DoubleOf(0), allRatings)
    IN [averageRating |->
          IF Len(allRatings) = 0 THEN NaNDouble
          ELSE DoubleDiv(DoubleOf(MathRound(DoubleTimes100(
                           DoubleDiv(totalRating, Len(allRatings))))), 100),
        ratingCount |-> Len(allRatings)]

\* mergeDuplicates' aggregate of the array its find returned:
\* ratingCount > 0 ? totalRating / ratingCount : 0
MergeAggregateDouble(allRatings) ==
    LET totalRating == ReduceDouble(DoubleOf(0), allRatings)
        ratingCount == Len(allRatings)
    IN [averageRating |-> IF ratingCount > 0 THEN DoubleDiv(totalRating, ratingCount)
                          ELSE DoubleOf(0),
        ratingCount |-> ratingCount]

Aggregates(allRatings) ==
    [submit |-> SubmitAggregateDouble(allRatings),
     merge |-> MergeAggregateDouble(allRatings)]

(* ------------------------------ the store ------------------------------ *)

\* movies:  moviesCollection, movieId (unique index) -> document
\* ratings: ratingsCollection, documents in insertion order; the index is the _id
\* hpc, hreq, hloc, hres: a request handler's position, its newRating, its
\*     locals (the inserted _id, averageRating, allRatings.length) and its response
\* mpc, marg, mloc, mres: a run of merge_duplicates.js: position, search key,
\*     locals (primaryMovie, duplicateMovieIds, pending bulk operations and
\*     deletions, averageRating, ratingCount) and outcome
\* solo, preStore: the call that started with nothing else in flight and has
\*     run undisturbed since, and the store it started from
\* lastUpdate: the most recent 201 response, sent right after its updateOne
\* store0, calls: the store as loaded, and the accepted requests in arrival order
\* fetched, aggregate: an array of rating values (tenths) as a find returns it,
\*     and the aggregate each call site computes from it, in doubles
\* fres: what the last run of find_duplicates.js reported
VARIABLES movies, ratings, hpc, hreq, hloc, hres, mpc, marg, mloc, mres,
          solo, preStore, lastUpdate, store0, calls, fetched, aggregate, fres,
          mlog, conn, cpc, cloc, cres, since

vars == <<movies, ratings, hpc, hreq, hloc, hres, mpc, marg, mloc, mres,
          solo, preStore, lastUpdate, store0, calls, fetched, aggregate, fres,
          mlog, conn, cpc, cloc, cres, since>>
hvars == <<hpc, hreq, hloc, hres>>
mvars == <<mpc, marg, mloc, mres, mlog, conn>>
cvars == <<cpc, cloc, cres, since>>

Handlers == {"h1", "h2"}
Mergers == {"m1", "m2"}

\* the node processes, each with its own instance of db/connection.js: the
\* runs of the merge script and the server; and the concurrent callers of
\* connect / getDb / close inside the server
Procs == Mergers \cup {"server"}
Callers == {"c1", "c2"}

T0 == 1700000000
Timestamps == {T0}

Movie(title, year, avg, cnt) ==
    [title |-> title, year |-> year, averageRating |-> avg, ratingCount |-> cnt]

Rating(userId, movieId, rating, ts) ==
    [userId |-> userId, movieId |-> movieId, rating |-> rating, timestamp |-> ts]

\* {_id} of the rating events matching find({ movieId: { $in: ids } })
RatingIdsOf(rs, ids) == {i \in DOMAIN rs : rs[i].movieId \in ids}

\* the rating values of the documents with the given _ids, in store order
ValuesAt(rs, ids) ==
    LET s == SortAsc(ids) IN [i \in DOMAIN s |-> rs[s[i]].rating]

\* the rating values of the documents find({ movieId }) returns
RatingValuesOf(rs, movieId) == ValuesAt(rs, RatingIdsOf(rs, {movieId}))

(* ------------------------- a freshly loaded store ---------------------- *)

\* calculateMovieStats: a movie with ratings gets the rounded mean and the
\* count, a movie with none keeps averageRating 0 and ratingCount 0
CalculateMovieStats(rs, movieId) ==
    LET vals == RatingValuesOf(rs, movieId)
    IN IF Len(vals) = 0 THEN [averageRating |-> Zero, ratingCount |-> 0]
       ELSE [averageRating |-> RoundedMean(Reduce(vals), Len(vals)),
             ratingCount |-> Len(vals)]

\* the catalogue: 10 and 11 are the same film loaded twice; 12 is either a
\* third copy or another film
Catalogues ==
    { (10 :> <<"Alpha (1999)", 1999>>) @@ (11 :> <<"Alpha (1999)", 1999>>)
        @@ (12 :> third) : third \in {<<"Alpha (1999)", 1999>>, <<"Beta (2000)", 2000>>} }

InitialRatings ==
    { <<>>,
      <<Rating(1, 10, 50, T0)>>,
      <<Rating(1, 11, 30, T0)>>,
      <<Rating(1, 10, 50, T0), Rating(2, 11, 30, T0)>> }

NoRequest == Rating(0, 0, 0, 0)
NoLocals == [newId |-> 0, averageRating |-> Zero, ratingCount |-> 0]
Response(status, error, movieId, newId, avg, cnt) ==
    [status |-> status, error |-> error, movieId |-> movieId, newId |-> newId,
     averageRating |-> avg, ratingCount |-> cnt]
NoResponse == Response(0, "", 0, 0, Zero, 0)
ErrorResponse(status, error) == Response(status, error, 0, 0, Zero, 0)

NoKey == [title |-> "", year |-> 0]
NoMerge == [primary |-> 0, duplicates |-> <<>>, ops |-> <<>>, deletes |-> <<>>,
            averageRating |-> Zero, ratingCount |-> 0]
NoStore == <<<<>>, <<>>>>

\* what a finished run leaves on the console: "Primary: ... Duplicates: ..."
Logged(loc) == [NoMerge EXCEPT !.primary = loc.primary, !.duplicates = loc.duplicates]

\* parseMovies: year is null when the title does not end in "(dddd)"
NoYear == -1

\* a catalogue in which 10 and 11 are one film whose title carries a 3-digit
\* year, so that the year field of both records is null
OddCatalogues ==
    { (10 :> <<"Alpha (999)", NoYear>>) @@ (11 :> <<"Alpha (999)", NoYear>>)
        @@ (12 :> <<"Beta (2000)", 2000>>) }

NoFound == [status |-> "", key |-> NoKey, movies |-> <<>>]

\* db/connection.js, "let client = null; let db = null": client 0 is null and
\* client k is the k-th MongoClient the process constructed; db 0 is null and
\* db k is client k's Db.  created counts the MongoClients constructed; live
\* holds the clients whose connect() resolved and whose close() has not
NoConnection == [client |-> 0, db |-> 0, created |-> 0, live |-> {}]

\* what a caller got back: { client, db } of connect, db of getDb, or an error
Handle(kind, client, db) == [kind |-> kind, client |-> client, db |-> db]
NoHandle == Handle("", 0, 0)

InitFrom(catalogues) ==
    /\ \E cat \in catalogues, rs \in InitialRatings :
         /\ ratings = rs
         /\ movies = [m \in DOMAIN cat |->
                        LET st == CalculateMovieStats(rs, m)
                        IN Movie(cat[m][1], cat[m][2], st.averageRating, st.ratingCount)]
    /\ hpc = [h \in Handlers |-> "idle"]
    /\ hreq = [h \in Handlers |-> NoRequest]
    /\ hloc = [h \in Handlers |-> NoLocals]
    /\ hres = [h \in Handlers |-> NoResponse]
    /\ mpc = [m \in Mergers |-> "idle"]
    /\ marg = [m \in Mergers |-> NoKey]
    /\ mloc = [m \in Mergers |-> NoMerge]
    /\ mres = [m \in Mergers |-> ""]
    /\ solo = "none"
    /\ preStore = NoStore
    /\ lastUpdate = NoResponse
    /\ store0 = <<movies, ratings>>
    /\ calls = <<>>
    /\ fetched = <<>>
    /\ aggregate = Aggregates(<<>>)
    /\ fres = NoFound
    /\ mlog = [m \in Mergers |-> <<>>]
    /\ conn = [p \in Procs |-> NoConnection]
    /\ cpc = [c \in Callers |-> "idle"]
    /\ cloc = [c \in Callers |-> 0]
    /\ cres = [c \in Callers |-> NoHandle]
    /\ since = FALSE

Init == InitFrom(Catalogues)

(* --------------------- POST /api/movies/:id/rate ----------------------- *)

\* (mutant) the range check has no upper limit
ValidationError_NoUpper(id, userId, rating) ==
    IF ParsesNaN(id) THEN "Invalid movie ID"
    ELSE IF Falsy(userId) \/ ParsesNaN(userId) THEN "Valid userId is required"
    ELSE IF Falsy(rating) \/ ParsesNaN(rating) THEN "Valid rating is required"
    ELSE IF ParseNum(rating) < 5 THEN "Rating must be between 0.5 and 5.0"
    ELSE ""

\* the four validation returns of the handler, in order; "" when the request passes
ValidationError(id, userId, rating) ==
    IF ParsesNaN(id) THEN "Invalid movie ID"
    ELSE IF Falsy(userId) \/ ParsesNaN(userId) THEN "Valid userId is required"
    ELSE IF Falsy(rating) \/ ParsesNaN(rating) THEN "Valid rating is required"
    ELSE IF ParseNum(rating) < 5 \/ ParseNum(rating) > 50
         THEN "Rating must be between 0.5 and 5.0"
    ELSE ""

\* requests accepted so far that have not inserted their rating yet
PendingInserts == Cardinality({h \in Handlers : hpc[h] \in {"findOne", "insertOne"}})

\* the request arrives: parse and validate, before any store access
HStart(h, id, userId, rating) ==
    /\ hpc[h] = "idle"
    /\ hloc' = [hloc EXCEPT ![h] = NoLocals]
    /\ IF ValidationError(id, userId, rating) # ""
       THEN /\ hres' = [hres EXCEPT ![h] =
                          ErrorResponse(400, ValidationError(id, userId, rating))]
            /\ hreq' = [hreq EXCEPT ![h] = NoRequest]
            /\ UNCHANGED hpc
       ELSE /\ Len(ratings) + PendingInserts < MaxRatings
            /\ hres' = [hres EXCEPT ![h] = NoResponse]
            /\ hreq' = [hreq EXCEPT ![h] =
                          Rating(ParseNum(userId), ParseNum(id), ParseNum(rating), 0)]
            /\ hpc' = [hpc EXCEPT ![h] = "findOne"]
    /\ UNCHANGED <<movies, ratings, lastUpdate>>
    /\ UNCHANGED mvars

\* (mutant) the existence check is missing
HFindOne_NoCheck(h) ==
    /\ hpc[h] = "findOne"
    /\ \E ts \in Timestamps : hreq' = [hreq EXCEPT ![h].timestamp = ts]
    /\ hpc' = [hpc EXCEPT ![h] = "insertOne"]
    /\ UNCHANGED <<movies, ratings, hloc, hres, lastUpdate>>
    /\ UNCHANGED mvars

\* moviesCollection.findOne({ movieId }): 404 when there is none, else build newRating
HFindOne(h) ==
    /\ hpc[h] = "findOne"
    /\ IF hreq[h].movieId \notin DOMAIN movies
       THEN /\ hres' = [hres EXCEPT ![h] = ErrorResponse(404, "Movie not found")]
            /\ hpc' = [hpc EXCEPT ![h] = "idle"]
            /\ hreq' = [hreq EXCEPT ![h] = NoRequest]
       ELSE /\ \E ts \in Timestamps : hreq' = [hreq EXCEPT ![h].timestamp = ts]
            /\ hpc' = [hpc EXCEPT ![h] = "insertOne"]
            /\ UNCHANGED hres
    /\ UNCHANGED <<movies, ratings, hloc, lastUpdate>>
    /\ UNCHANGED mvars

\* ratingsCollection.insertOne(newRating): the store assigns the _id
HInsertOne(h) ==
    /\ hpc[h] = "insertOne"
    /\ ratings' = Append(ratings, hreq[h])
    /\ hloc' = [hloc EXCEPT ![h].newId = Len(ratings) + 1]
    /\ hpc' = [hpc EXCEPT ![h] = "find"]
    /\ UNCHANGED <<movies, hreq, hres, lastUpdate>>
    /\ UNCHANGED mvars

\* (mutant) the average is stored without rounding
HFind_Plain(h) ==
    /\ hpc[h] = "find"
    /\ LET allRatings == RatingValuesOf(ratings, hreq[h].movieId)
           totalRating == Reduce(allRatings)
       IN hloc' = [hloc EXCEPT ![h].averageRating =
                                 IF Len(allRatings) = 0 THEN NaN
                                 ELSE PlainMean(totalRating, Len(allRatings)),
                               ![h].ratingCount = Len(allRatings)]
    /\ hpc' = [hpc EXCEPT ![h] = "updateOne"]
    /\ UNCHANGED <<movies, ratings, hreq, hres, lastUpdate>>
    /\ UNCHANGED mvars

\* (mutant) the read-back misses the rating event just inserted
HFind_BeforeOwn(h) ==
    /\ hpc[h] = "find"
    /\ LET allRatings == ValuesAt(ratings, RatingIdsOf(ratings, {hreq[h].movieId})
                                             \ {hloc[h].newId})
           totalRating == Reduce(allRatings)
       IN hloc' = [hloc EXCEPT ![h].averageRating = RoundedMean(totalRating, Len(allRatings)),
                               ![h].ratingCount = Len(allRatings)]
    /\ hpc' = [hpc EXCEPT ![h] = "updateOne"]
    /\ UNCHANGED <<movies, ratings, hreq, hres, lastUpdate>>
    /\ UNCHANGED mvars

\* (mutant) a running mean: the new aggregate is worked out from the stored
\* averageRating and ratingCount and the new value, not from the rating events
HFind_Incremental(h) ==
    /\ hpc[h] = "find"
    /\ LET old == IF hreq[h].movieId \in DOMAIN movies
                  THEN movies[hreq[h].movieId]
                  ELSE Movie("", 0, Zero, 0)
           oldTotal == IF old.averageRating.den = 0 THEN 0
                       ELSE (old.averageRating.num * 10 * old.ratingCount)
                              \div old.averageRating.den
       IN hloc' = [hloc EXCEPT ![h].averageRating =
                                 RoundedMean(oldTotal + hreq[h].rating, old.ratingCount + 1),
                               ![h].ratingCount = old.ratingCount + 1]
    /\ hpc' = [hpc EXCEPT ![h] = "updateOne"]
    /\ UNCHANGED <<movies, ratings, hreq, hres, lastUpdate>>
    /\ UNCHANGED mvars

\* ratingsCollection.find({ movieId }).toArray(), then totalRating and averageRating
HFind(h) ==
    /\ hpc[h] = "find"
    /\ LET allRatings == RatingValuesOf(ratings, hreq[h].movieId)
           totalRating == Reduce(allRatings)
       IN hloc' = [hloc EXCEPT ![h].averageRating = RoundedMean(totalRating, Len(allRatings)),
                               ![h].ratingCount = Len(allRatings)]
    /\ hpc' = [hpc EXCEPT ![h] = "updateOne"]
    /\ UNCHANGED <<movies, ratings, hreq, hres, lastUpdate>>
    /\ UNCHANGED mvars

\* (mutant) the $set leaves ratingCount out
HUpdateOne_NoCount(h) ==
    /\ hpc[h] = "updateOne"
    /\ movies' = IF hreq[h].movieId \in DOMAIN movies
                 THEN [movies EXCEPT ![hreq[h].movieId].averageRating = hloc[h].averageRating]
                 ELSE movies
    /\ hres' = [hres EXCEPT ![h] = Response(201, "", hreq[h].movieId, hloc[h].newId,
                                            hloc[h].averageRating, hloc[h].ratingCount)]
    /\ lastUpdate' = hres'[h]
    /\ hpc' = [hpc EXCEPT ![h] = "idle"]
    /\ hreq' = [hreq EXCEPT ![h] = NoRequest]
    /\ hloc' = [hloc EXCEPT ![h] = NoLocals]
    /\ UNCHANGED ratings
    /\ UNCHANGED mvars

\* moviesCollection.updateOne({ movieId }, { $set: ... }), then the 201 response
HUpdateOne(h) ==
    /\ hpc[h] = "updateOne"
    /\ movies' = IF hreq[h].movieId \in DOMAIN movies
                 THEN [movies EXCEPT ![hreq[h].movieId].averageRating = hloc[h].averageRating,
                                     ![hreq[h].movieId].ratingCount = hloc[h].ratingCount]
                 ELSE movies
    /\ hres' = [hres EXCEPT ![h] = Response(201, "", hreq[h].movieId, hloc[h].newId,
                                            hloc[h].averageRating, hloc[h].ratingCount)]
    /\ lastUpdate' = hres'[h]
    /\ hpc' = [hpc EXCEPT ![h] = "idle"]
    /\ hreq' = [hreq EXCEPT ![h] = NoRequest]
    /\ hloc' = [hloc EXCEPT ![h] = NoLocals]
    /\ UNCHANGED ratings
    /\ UNCHANGED mvars

\* a store call rejects: catch (error) { next(error) }, the 500 response
HThrow(h) ==
    /\ hpc[h] \in {"findOne", "insertOne", "find", "updateOne"}
    /\ hres' = [hres EXCEPT ![h] = ErrorResponse(500, "Internal server error")]
    /\ hpc' = [hpc EXCEPT ![h] = "idle"]
    /\ hreq' = [hreq EXCEPT ![h] = NoRequest]
    /\ hloc' = [hloc EXCEPT ![h] = NoLocals]
    /\ UNCHANGED <<movies, ratings, lastUpdate>>
    /\ UNCHANGED mvars

(* ---------------------- admin/merge_duplicates.js ---------------------- *)

\* parseInt of the year argument
ParseYear(year) ==
    CASE year = "1999" -> 1999 [] year = "2000" -> 2000 [] year = "999" -> 999
      [] OTHER -> 0

\* db/connection.js as the script uses it, one call at a time.
\* connect() when nothing rejects: the handles it has when both are set, else
\* a new MongoClient, connected, and its Db
Connected(c) ==
    IF c.client # 0 /\ c.db # 0 THEN c
    ELSE [client |-> c.created + 1, db |-> c.created + 1,
          created |-> c.created + 1, live |-> c.live \cup {c.created + 1}]

\* connect() when makeClient resolves and client.connect() rejects: client has
\* been assigned, db has not
MadeClient(c) ==
    IF c.client # 0 /\ c.db # 0 THEN c
    ELSE [c EXCEPT !.client = c.created + 1, !.created = c.created + 1]

\* close() when client.close() resolves
Closed(c) ==
    IF c.client # 0
    THEN [c EXCEPT !.live = c.live \ {c.client}, !.client = 0, !.db = 0]
    ELSE c

\* most executions of the withTransaction callback in one run
MaxAttempts == 2

\* the executions of the callback the run has begun
Attempts(m) == Cardinality({i \in DOMAIN mlog[m] : mlog[m][i] = "startTransaction"})

\* node admin/merge_duplicates.js <title> <year>: the usage check; without
\* both arguments mergeDuplicates returns and the script goes on to close()
MStart(m, title, year) ==
    /\ mpc[m] = "idle"
    /\ IF title = "" \/ year = ""
       THEN /\ mpc' = [mpc EXCEPT ![m] = "close"]
            /\ mres' = [mres EXCEPT ![m] = "Usage"]
            /\ UNCHANGED marg
       ELSE /\ mpc' = [mpc EXCEPT ![m] = "connect"]
            /\ marg' = [marg EXCEPT ![m] =
                          [title |-> title \o " (" \o year \o ")", year |-> ParseYear(year)]]
            /\ UNCHANGED mres
    /\ UNCHANGED <<movies, ratings, mloc, lastUpdate, mlog, conn>>
    /\ UNCHANGED hvars

\* const { db } = await connect()
MConnect(m) ==
    /\ mpc[m] = "connect"
    /\ conn' = [conn EXCEPT ![m] = Connected(conn[m])]
    /\ mlog' = [mlog EXCEPT ![m] = Append(mlog[m], "connect")]
    /\ mpc' = [mpc EXCEPT ![m] = "locate"]
    /\ UNCHANGED <<movies, ratings, marg, mloc, mres, lastUpdate>>
    /\ UNCHANGED hvars

\* (mutant) the sort is descending: the record kept is the one with the largest movieId
MLocate_Descending(m) ==
    /\ mpc[m] = "locate"
    /\ LET found == SortAsc({id \in DOMAIN movies :
                               /\ movies[id].title = marg[m].title
                               /\ movies[id].year = marg[m].year})
       IN IF Len(found) < 2
          THEN /\ mpc' = [mpc EXCEPT ![m] = "close"]
               /\ mres' = [mres EXCEPT ![m] = "NoOp"]
               /\ UNCHANGED <<mloc, mlog>>
          ELSE /\ mpc' = [mpc EXCEPT ![m] = "txFind"]
               /\ mloc' = [mloc EXCEPT ![m].primary = found[Len(found)],
                                       ![m].duplicates = SubSeq(found, 1, Len(found) - 1)]
               /\ mlog' = [mlog EXCEPT ![m] = mlog[m] \o <<"startSession", "startTransaction">>]
               /\ UNCHANGED mres
    /\ UNCHANGED <<movies, ratings, marg, lastUpdate, conn>>
    /\ UNCHANGED hvars

\* moviesCollection.find({ title: searchTitle, year }).sort({ movieId: 1 }),
\* the "No duplicates found." return, else primaryMovie, duplicateMovieIds,
\* startSession() and the start of withTransaction
MLocate(m) ==
    /\ mpc[m] = "locate"
    /\ LET found == SortAsc({id \in DOMAIN movies :
                               /\ movies[id].title = marg[m].title
                               /\ movies[id].year = marg[m].year})
       IN IF Len(found) < 2
          THEN /\ mpc' = [mpc EXCEPT ![m] = "close"]
               /\ mres' = [mres EXCEPT ![m] = "NoOp"]
               /\ UNCHANGED <<mloc, mlog>>
          ELSE /\ mpc' = [mpc EXCEPT ![m] = "txFind"]
               /\ mloc' = [mloc EXCEPT ![m].primary = Head(found),
                                       ![m].duplicates = Tail(found)]
               /\ mlog' = [mlog EXCEPT ![m] = mlog[m] \o <<"startSession", "startTransaction">>]
               /\ UNCHANGED mres
    /\ UNCHANGED <<movies, ratings, marg, lastUpdate, conn>>
    /\ UNCHANGED hvars

\* ratingsCollection.find({ movieId: { $in: duplicateMovieIds } }), then ratingOps
MTxFind(m) ==
    /\ mpc[m] = "txFind"
    /\ LET ratingsToMove == SortAsc(RatingIdsOf(ratings, Range(mloc[m].duplicates)))
       IN /\ mloc' = [mloc EXCEPT ![m].ops = ratingsToMove]
          /\ mpc' = [mpc EXCEPT ![m] = IF Len(ratingsToMove) > 0 THEN "bulkWrite" ELSE "find"]
    /\ UNCHANGED <<movies, ratings, marg, mres, lastUpdate, mlog, conn>>
    /\ UNCHANGED hvars

\* (mutant) the update has no $set: the event is replaced by { movieId }
MBulkWrite_Replace(m) ==
    /\ mpc[m] = "bulkWrite"
    /\ ratings' = [ratings EXCEPT ![Head(mloc[m].ops)] = Rating(0, mloc[m].primary, 0, 0)]
    /\ mloc' = [mloc EXCEPT ![m].ops = Tail(mloc[m].ops)]
    /\ mpc' = [mpc EXCEPT ![m] = IF Len(mloc[m].ops) > 1 THEN "bulkWrite" ELSE "find"]
    /\ UNCHANGED <<movies, marg, mres, lastUpdate, mlog, conn>>
    /\ UNCHANGED hvars

\* ratingsCollection.bulkWrite(ratingOps), no session given: the next updateOne
\* of the batch, { _id } -> $set movieId, applied to the store as it is
MBulkWrite(m) ==
    /\ mpc[m] = "bulkWrite"
    /\ ratings' = [ratings EXCEPT ![Head(mloc[m].ops)].movieId = mloc[m].primary]
    /\ mloc' = [mloc EXCEPT ![m].ops = Tail(mloc[m].ops)]
    /\ mpc' = [mpc EXCEPT ![m] = IF Len(mloc[m].ops) > 1 THEN "bulkWrite" ELSE "find"]
    /\ UNCHANGED <<movies, marg, mres, lastUpdate, mlog, conn>>
    /\ UNCHANGED hvars

\* (mutant) ratingCount is taken from the counts stored on the group's
\* records, not from the events read back
MFind_FromCounts(m) ==
    /\ mpc[m] = "find"
    /\ LET allRatings == RatingValuesOf(ratings, mloc[m].primary)
           totalRating == Reduce(allRatings)
           group == <<mloc[m].primary>> \o mloc[m].duplicates
           ratingCount == Reduce([i \in DOMAIN group |->
                                    IF group[i] \in DOMAIN movies
                                    THEN movies[group[i]].ratingCount ELSE 0])
       IN mloc' = [mloc EXCEPT
                     ![m].ratingCount = ratingCount,
                     ![m].averageRating = IF Len(allRatings) > 0
                                          THEN PlainMean(totalRating, Len(allRatings))
                                          ELSE Zero]
    /\ mpc' = [mpc EXCEPT ![m] = "updateOne"]
    /\ UNCHANGED <<movies, ratings, marg, mres, lastUpdate, mlog, conn>>
    /\ UNCHANGED hvars

\* ratingsCollection.find({ movieId: primaryMovie.movieId }), totalRating,
\* ratingCount, averageRating
MFind(m) ==
    /\ mpc[m] = "find"
    /\ LET allRatings == RatingValuesOf(ratings, mloc[m].primary)
           totalRating == Reduce(allRatings)
           ratingCount == Len(allRatings)
       IN mloc' = [mloc EXCEPT
                     ![m].ratingCount = ratingCount,
                     ![m].averageRating = IF ratingCount > 0
                                          THEN PlainMean(totalRating, ratingCount)
                                          ELSE Zero]
    /\ mpc' = [mpc EXCEPT ![m] = "updateOne"]
    /\ UNCHANGED <<movies, ratings, marg, mres, lastUpdate, mlog, conn>>
    /\ UNCHANGED hvars

\* (mutant) ratingCount is raised by the counts stored on the duplicates
\* ($inc), not set to the number of events read back
MUpdateOne_Inc(m) ==
    /\ mpc[m] = "updateOne"
    /\ movies' = IF mloc[m].primary \in DOMAIN movies
                 THEN [movies EXCEPT
                         ![mloc[m].primary].averageRating = mloc[m].averageRating,
                         ![mloc[m].primary].ratingCount =
                             movies[mloc[m].primary].ratingCount
                               + Reduce([i \in DOMAIN mloc[m].duplicates |->
                                           IF mloc[m].duplicates[i] \in DOMAIN movies
                                           THEN movies[mloc[m].duplicates[i]].ratingCount
                                           ELSE 0])]
                 ELSE movies
    /\ mloc' = [mloc EXCEPT ![m].deletes = mloc[m].duplicates]
    /\ mpc' = [mpc EXCEPT ![m] = "deleteMany"]
    /\ UNCHANGED <<ratings, marg, mres, lastUpdate, mlog, conn>>
    /\ UNCHANGED hvars

\* moviesCollection.updateOne({ movieId: primaryMovie.movieId }, { $set: ... })
MUpdateOne(m) ==
    /\ mpc[m] = "updateOne"
    /\ movies' = IF mloc[m].primary \in DOMAIN movies
                 THEN [movies EXCEPT ![mloc[m].primary].averageRating = mloc[m].averageRating,
                                     ![mloc[m].primary].ratingCount = mloc[m].ratingCount]
                 ELSE movies
    /\ mloc' = [mloc EXCEPT ![m].deletes = mloc[m].duplicates]
    /\ mpc' = [mpc EXCEPT ![m] = "deleteMany"]
    /\ UNCHANGED <<ratings, marg, mres, lastUpdate, mlog, conn>>
    /\ UNCHANGED hvars

\* (mutant) the duplicates are never deleted
MDeleteMany_Keeps(m) ==
    /\ mpc[m] = "deleteMany"
    /\ mpc' = [mpc EXCEPT ![m] = "endSession"]
    /\ mres' = [mres EXCEPT ![m] = "Merged"]
    /\ mloc' = [mloc EXCEPT ![m] = Logged(mloc[m])]
    /\ mlog' = [mlog EXCEPT ![m] = Append(mlog[m], "commitTransaction")]
    /\ UNCHANGED <<movies, ratings, marg, lastUpdate, conn>>
    /\ UNCHANGED hvars

\* (mutant) deleteOne in place of deleteMany: only the first duplicate is removed
MDeleteMany_One(m) ==
    /\ mpc[m] = "deleteMany"
    /\ movies' = [id \in DOMAIN movies \ {Head(mloc[m].deletes)} |-> movies[id]]
    /\ mpc' = [mpc EXCEPT ![m] = "endSession"]
    /\ mres' = [mres EXCEPT ![m] = "Merged"]
    /\ mloc' = [mloc EXCEPT ![m] = Logged(mloc[m])]
    /\ mlog' = [mlog EXCEPT ![m] = Append(mlog[m], "commitTransaction")]
    /\ UNCHANGED <<ratings, marg, lastUpdate, conn>>
    /\ UNCHANGED hvars

\* moviesCollection.deleteMany({ movieId: { $in: duplicateMovieIds } }): the next
\* matching document is removed; after the last one the callback returns and
\* withTransaction commits
MDeleteMany(m) ==
    /\ mpc[m] = "deleteMany"
    /\ movies' = [id \in DOMAIN movies \ {Head(mloc[m].deletes)} |-> movies[id]]
    /\ IF Len(mloc[m].deletes) > 1
       THEN /\ mloc' = [mloc EXCEPT ![m].deletes = Tail(mloc[m].deletes)]
            /\ UNCHANGED <<mpc, mres, mlog>>
       ELSE /\ mpc' = [mpc EXCEPT ![m] = "endSession"]
            /\ mres' = [mres EXCEPT ![m] = "Merged"]
            /\ mloc' = [mloc EXCEPT ![m] = Logged(mloc[m])]
            /\ mlog' = [mlog EXCEPT ![m] = Append(mlog[m], "commitTransaction")]
    /\ UNCHANGED <<ratings, marg, lastUpdate, conn>>
    /\ UNCHANGED hvars

\* (mutant) the finally block does not end the session
MEndSession_Missing(m) ==
    /\ mpc[m] = "endSession"
    /\ mpc' = [mpc EXCEPT ![m] = "close"]
    /\ UNCHANGED <<movies, ratings, marg, mloc, mres, lastUpdate, conn, mlog>>
    /\ UNCHANGED hvars

\* finally { await session.endSession() }
MEndSession(m) ==
    /\ mpc[m] = "endSession"
    /\ mlog' = [mlog EXCEPT ![m] = Append(mlog[m], "endSession")]
    /\ mpc' = [mpc EXCEPT ![m] = "close"]
    /\ UNCHANGED <<movies, ratings, marg, mloc, mres, lastUpdate, conn>>
    /\ UNCHANGED hvars

\* the script's finally { await close() }, after which the process ends
MClose(m) ==
    /\ mpc[m] = "close"
    /\ conn' = [conn EXCEPT ![m] = Closed(conn[m])]
    /\ mlog' = [mlog EXCEPT ![m] = Append(mlog[m], "close")]
    /\ mpc' = [mpc EXCEPT ![m] = "done"]
    /\ UNCHANGED <<movies, ratings, marg, mloc, mres, lastUpdate>>
    /\ UNCHANGED hvars

\* (mutant) an error inside the callback ends the run without aborting the
\* transaction
MThrow_NoAbort(m) ==
    /\ mpc[m] \in {"connect", "locate", "txFind", "bulkWrite", "find", "updateOne", "deleteMany"}
    /\ IF mpc[m] \in {"connect", "locate"}
       THEN /\ mres' = [mres EXCEPT ![m] = "Error"]
            /\ mpc' = [mpc EXCEPT ![m] = "close"]
       ELSE /\ mres' = [mres EXCEPT ![m] = "Aborted"]
            /\ mpc' = [mpc EXCEPT ![m] = "endSession"]
    /\ UNCHANGED mlog
    /\ IF mpc[m] = "connect"
       THEN \/ UNCHANGED conn
            \/ conn' = [conn EXCEPT ![m] = MadeClient(conn[m])]
       ELSE UNCHANGED conn
    /\ mloc' = [mloc EXCEPT ![m] = Logged(mloc[m])]
    /\ UNCHANGED <<movies, ratings, marg, lastUpdate>>
    /\ UNCHANGED hvars

\* a call rejects.  connect(): makeClient rejects and client stays null, or
\* client.connect() rejects after client was assigned; the error reaches the
\* script's top-level catch, as does an error of the locate query.  Inside the
\* withTransaction callback: the transaction, which holds none of the calls,
\* is aborted and the error is caught ("Transaction aborted")
MThrow(m) ==
    /\ mpc[m] \in {"connect", "locate", "txFind", "bulkWrite", "find", "updateOne", "deleteMany"}
    /\ IF mpc[m] \in {"connect", "locate"}
       THEN /\ mres' = [mres EXCEPT ![m] = "Error"]
            /\ mpc' = [mpc EXCEPT ![m] = "close"]
            /\ UNCHANGED mlog
       ELSE /\ mres' = [mres EXCEPT ![m] = "Aborted"]
            /\ mpc' = [mpc EXCEPT ![m] = "endSession"]
            /\ mlog' = [mlog EXCEPT ![m] = Append(mlog[m], "abortTransaction")]
    /\ IF mpc[m] = "connect"
       THEN \/ UNCHANGED conn
            \/ conn' = [conn EXCEPT ![m] = MadeClient(conn[m])]
       ELSE UNCHANGED conn
    /\ mloc' = [mloc EXCEPT ![m] = Logged(mloc[m])]
    /\ UNCHANGED <<movies, ratings, marg, lastUpdate>>
    /\ UNCHANGED hvars

\* a call inside the callback rejects with an error labelled
\* TransientTransactionError: withTransaction aborts the transaction, starts
\* another and executes the callback again
MRetry(m) ==
    /\ mpc[m] \in {"txFind", "bulkWrite", "find", "updateOne", "deleteMany"}
    /\ Attempts(m) < MaxAttempts
    /\ mlog' = [mlog EXCEPT ![m] = mlog[m] \o <<"abortTransaction", "startTransaction">>]
    /\ mloc' = [mloc EXCEPT ![m] = Logged(mloc[m])]
    /\ mpc' = [mpc EXCEPT ![m] = "txFind"]
    /\ UNCHANGED <<movies, ratings, marg, mres, lastUpdate, conn>>
    /\ UNCHANGED hvars

\* session.endSession() rejects: the error leaves mergeDuplicates and reaches
\* the script's top-level catch.  client.close() rejects: close() goes no
\* further, the handles stay set and the process ends
MReleaseThrow(m) ==
    /\ \/ /\ mpc[m] = "endSession"
          /\ mpc' = [mpc EXCEPT ![m] = "close"]
          /\ mlog' = [mlog EXCEPT ![m] = Append(mlog[m], "endSession")]
       \/ /\ mpc[m] = "close"
          /\ conn[m].client # 0
          /\ mpc' = [mpc EXCEPT ![m] = "done"]
          /\ mlog' = [mlog EXCEPT ![m] = Append(mlog[m], "close")]
    /\ UNCHANGED <<movies, ratings, marg, mloc, mres, lastUpdate, conn>>
    /\ UNCHANGED hvars

(* ----------------------- admin/find_duplicates.js ---------------------- *)

\* the arrays a find without a sort can return for a set of documents
Orders(S) == {s \in [1..Cardinality(S) -> S] : Range(s) = S}

\* node admin/find_duplicates.js <title> <year>.  The file holds two
\* declarations of movies: find({ title: searchTitle, year: parseInt(year) })
\* and find({ title: searchTitle }); as it stands node rejects it (the
\* identifier is declared twice), with either declaration alone it runs with
\* that filter.  Neither find has a sort.
FindDuplicates(title, year) ==
    /\ \/ fres' = [NoFound EXCEPT !.status = "SyntaxError"]
       \/ /\ title = "" \/ year = ""
          /\ fres' = [NoFound EXCEPT !.status = "Usage"]
       \/ /\ title # "" /\ year # ""
          /\ LET searchTitle == title \o " (" \o year \o ")"
                 key == [title |-> searchTitle, year |-> ParseYear(year)]
             IN \E declaration \in {15, 16} :
                  \E found \in Orders({id \in DOMAIN movies :
                                         /\ movies[id].title = searchTitle
                                         /\ declaration = 15 => movies[id].year = key.year}) :
                    fres' = [status |-> IF Len(found) = 0 THEN "None" ELSE "Found",
                             key |-> key, movies |-> found]
    /\ UNCHANGED <<movies, ratings, lastUpdate, solo, preStore, store0, calls,
                   fetched, aggregate>>
    /\ UNCHANGED <<hvars, mvars, cvars>>

(* ------------------------- server/db/connection.js --------------------- *)

\* most MongoClients one process constructs
MaxClients == 3

\* the module state of the server's connection.js
Module == conn["server"]

\* a step of connection.js touches neither the store nor a request or a script
ConnectionOnly ==
    /\ UNCHANGED <<movies, ratings, lastUpdate, solo, preStore, store0, calls,
                   fetched, aggregate, fres>>
    /\ UNCHANGED <<hvars, mpc, marg, mloc, mres, mlog>>

\* connect(): "if (client && db) return { client, db }", else makeClient() is
\* called and awaited
CConnect(c) ==
    /\ cpc[c] = "idle"
    /\ IF Module.client # 0 /\ Module.db # 0
       THEN /\ cres' = [cres EXCEPT ![c] = Handle("handles", Module.client, Module.db)]
            /\ UNCHANGED <<cpc, cloc>>
       ELSE /\ Module.created < MaxClients
            /\ cpc' = [cpc EXCEPT ![c] = "makeClient"]
            /\ cloc' = [cloc EXCEPT ![c] = 0]
            /\ cres' = [cres EXCEPT ![c] = NoHandle]
    /\ UNCHANGED <<conn, since>>
    /\ ConnectionOnly

\* makeClient() resolves with a new MongoClient, which is assigned to client;
\* client.connect() is called on it and awaited
CMakeClient(c) ==
    /\ cpc[c] = "makeClient"
    /\ conn' = [conn EXCEPT !["server"].client = Module.created + 1,
                            !["server"].created = Module.created + 1]
    /\ cloc' = [cloc EXCEPT ![c] = Module.created + 1]
    /\ cpc' = [cpc EXCEPT ![c] = "clientConnect"]
    /\ UNCHANGED <<cres, since>>
    /\ ConnectionOnly

\* client.connect() resolves: db = client.db(...) on whatever client holds by
\* now (a TypeError when it is null), and { client, db } is returned
CClientConnect(c) ==
    /\ cpc[c] = "clientConnect"
    /\ IF Module.client = 0
       THEN /\ conn' = [conn EXCEPT !["server"].live = Module.live \cup {cloc[c]}]
            /\ cres' = [cres EXCEPT ![c] = Handle("error", 0, 0)]
            /\ UNCHANGED since
       ELSE /\ conn' = [conn EXCEPT !["server"].live = Module.live \cup {cloc[c]},
                                    !["server"].db = Module.client]
            /\ cres' = [cres EXCEPT ![c] = Handle("handles", Module.client, Module.client)]
            /\ since' = TRUE
    /\ cpc' = [cpc EXCEPT ![c] = "idle"]
    /\ UNCHANGED cloc
    /\ ConnectionOnly

\* getDb(): throws when db is null
CGetDb(c) ==
    /\ cpc[c] = "idle"
    /\ cres' = [cres EXCEPT ![c] = IF Module.db = 0 THEN Handle("error", 0, 0)
                                   ELSE Handle("db", 0, Module.db)]
    /\ UNCHANGED <<conn, cpc, cloc, since>>
    /\ ConnectionOnly

\* close(): nothing when client is null, else client.close() is called and awaited
CClose(c) ==
    /\ cpc[c] = "idle"
    /\ IF Module.client = 0
       THEN /\ cres' = [cres EXCEPT ![c] = Handle("closed", 0, 0)]
            /\ UNCHANGED <<cpc, cloc>>
       ELSE /\ cpc' = [cpc EXCEPT ![c] = "clientClose"]
            /\ cloc' = [cloc EXCEPT ![c] = Module.client]
            /\ cres' = [cres EXCEPT ![c] = NoHandle]
    /\ UNCHANGED <<conn, since>>
    /\ ConnectionOnly

\* (mutant) close() resets client and leaves db set
CClientClose_KeepsDb(c) ==
    /\ cpc[c] = "clientClose"
    /\ conn' = [conn EXCEPT !["server"].live = Module.live \ {cloc[c]},
                            !["server"].client = 0]
    /\ cres' = [cres EXCEPT ![c] = Handle("closed", 0, 0)]
    /\ cpc' = [cpc EXCEPT ![c] = "idle"]
    /\ since' = FALSE
    /\ UNCHANGED cloc
    /\ ConnectionOnly

\* client.close() resolves: client = null; db = null
CClientClose(c) ==
    /\ cpc[c] = "clientClose"
    /\ conn' = [conn EXCEPT !["server"].live = Module.live \ {cloc[c]},
                            !["server"].client = 0,
                            !["server"].db = 0]
    /\ cres' = [cres EXCEPT ![c] = Handle("closed", 0, 0)]
    /\ cpc' = [cpc EXCEPT ![c] = "idle"]
    /\ since' = FALSE
    /\ UNCHANGED cloc
    /\ ConnectionOnly

\* the awaited call rejects (makeClient, client.connect or client.close): the
\* function goes no further and the caller gets the error
CThrow(c) ==
    /\ cpc[c] \in {"makeClient", "clientConnect", "clientClose"}
    /\ cres' = [cres EXCEPT ![c] = Handle("error", 0, 0)]
    /\ cpc' = [cpc EXCEPT ![c] = "idle"]
    /\ UNCHANGED <<conn, cloc, since>>
    /\ ConnectionOnly

\* the store plays no part in the connection specifications
InitConn == Init /\ ratings = <<>> /\ movies[12].year = 2000

\* no call of connection.js is in flight
NoCaller == \A c \in Callers : cpc[c] = "idle"

CSteps(c) ==
    \/ CMakeClient(c)
    \/ CClientConnect(c)
    \/ CClientClose(c)
    \/ CThrow(c)

\* SpecConn: connect, getDb and close are called one at a time, each call run
\* to completion; an awaited call may reject
NextConnSeq ==
    \/ \E c \in Callers : NoCaller /\ CConnect(c)
    \/ \E c \in Callers : NoCaller /\ CGetDb(c)
    \/ \E c \in Callers : NoCaller /\ CClose(c)
    \/ \E c \in Callers : CSteps(c)

SpecConn == InitConn /\ [][NextConnSeq]_vars

\* SpecConnect: two callers whose calls of connect (and a later getDb and
\* close) overlap, in any interleaving of their awaits
NextConnect ==
    \/ \E c \in Callers : CConnect(c)
    \/ \E c \in Callers : CGetDb(c)
    \/ \E c \in Callers : CClose(c)
    \/ \E c \in Callers : CSteps(c)

SpecConnect == InitConn /\ [][NextConnect]_vars

(* ------------------- a call run alone, as one function ---------------- *)

\* the store after a validated rating request rq runs alone on the store S:
\* findOne (404: nothing written), insertOne, find, updateOne
RateEffect(S, rq) ==
    IF rq.movieId \notin DOMAIN S[1] THEN S
    ELSE LET rs == Append(S[2], rq)
             allRatings == RatingValuesOf(rs, rq.movieId)
         IN << [S[1] EXCEPT
                  ![rq.movieId].averageRating =
                      RoundedMean(Reduce(allRatings), Len(allRatings)),
                  ![rq.movieId].ratingCount = Len(allRatings)],
               rs >>

\* the store after mergeDuplicates runs alone on the store S for the search
\* key: locate, reassign, recompute, delete
MergeEffect(S, key) ==
    LET found == SortAsc({id \in DOMAIN S[1] :
                            S[1][id].title = key.title /\ S[1][id].year = key.year})
    IN IF Len(found) < 2 THEN S
       ELSE LET primary == Head(found)
                duplicateMovieIds == Range(Tail(found))
                rs == [i \in DOMAIN S[2] |->
                         IF S[2][i].movieId \in duplicateMovieIds
                         THEN [S[2][i] EXCEPT !.movieId = primary]
                         ELSE S[2][i]]
                allRatings == RatingValuesOf(rs, primary)
                ratingCount == Len(allRatings)
                averageRating == IF ratingCount > 0
                                 THEN PlainMean(Reduce(allRatings), ratingCount)
                                 ELSE Zero
            IN << [id \in DOMAIN S[1] \ duplicateMovieIds |->
                     IF id = primary
                     THEN [S[1][id] EXCEPT !.averageRating = averageRating,
                                           !.ratingCount = ratingCount]
                     ELSE S[1][id]],
                  rs >>

\* the aggregate the rating handler computes from the array its find returned
SubmitAggregate(allRatings) ==
    LET totalRating == Reduce(allRatings)
    IN [averageRating |-> RoundedMean(totalRating, Len(allRatings)),
        ratingCount |-> Len(allRatings)]

\* the aggregate mergeDuplicates computes from the array its find returned
MergeAggregate(allRatings) ==
    LET totalRating == Reduce(allRatings)
        ratingCount == Len(allRatings)
    IN [averageRating |-> IF ratingCount > 0 THEN PlainMean(totalRating, ratingCount)
                          ELSE Zero,
        ratingCount |-> ratingCount]

(* ------------------------------ scheduling ----------------------------- *)

\* no call is in flight
Quiescent ==
    /\ \A h \in Handlers : hpc[h] = "idle"
    /\ \A m \in Mergers : mpc[m] \in {"idle", "done"}

\* a call by p starts: when nothing else is in flight, remember the store
Begins(p) ==
    /\ IF Quiescent
       THEN solo' = p /\ preStore' = <<movies, ratings>>
       ELSE solo' = "none" /\ preStore' = NoStore
    /\ UNCHANGED <<store0, calls, fetched, aggregate, fres>>
    /\ UNCHANGED cvars

\* a later step of p's call: it disturbs whichever other call was running alone
Steps(p) ==
    /\ IF solo = p
       THEN UNCHANGED <<solo, preStore>>
       ELSE solo' = "none" /\ preStore' = NoStore
    /\ UNCHANGED <<store0, calls, fetched, aggregate, fres>>
    /\ UNCHANGED cvars

\* requests <<:id, userId, rating>>: the well-formed ones the concurrent
\* specifications draw from, and malformed ones
GoodRequests ==
    {<<id, Num(1), r>> : id \in {Num(10), Num(11), Num(999)}, r \in {Num(30), Num(50)}}
BadRequests ==
    { <<Str, Num(1), Num(30)>>,
      <<Num(10), Num(0), Num(30)>>, <<Num(10), Undefined, Num(30)>>, <<Num(10), Str, Num(30)>>,
      <<Num(10), Num(1), Num(0)>>, <<Num(10), Num(1), Undefined>>, <<Num(10), Num(1), Str>>,
      <<Num(10), Num(1), Num(55)>>, <<Num(11), Num(1), Num(4)>>, <<Num(999), Num(1), Num(60)>> }
Requests == GoodRequests \cup BadRequests \cup {<<Num(10), Num(1), Num(5)>>}

\* argv <<title, year>> of the merge script
MergeArgs == {<<"Alpha", "1999">>, <<"Beta", "2000">>, <<"", "1999">>, <<"Alpha", "">>}

\* an accepted request is logged as it arrives
Logs(h) ==
    /\ calls' = Append(calls, hreq'[h])
    /\ IF Quiescent
       THEN solo' = h /\ preStore' = <<movies, ratings>>
       ELSE solo' = "none" /\ preStore' = NoStore
    /\ UNCHANGED <<store0, fetched, aggregate, fres>>
    /\ UNCHANGED cvars

\* the store calls of a request in flight, and of a merge run in flight
HSteps(h) ==
    \/ HFindOne(h) /\ Steps(h)
    \/ HInsertOne(h) /\ Steps(h)
    \/ HFind(h) /\ Steps(h)
    \/ HUpdateOne(h) /\ Steps(h)

MSteps(m) ==
    \/ MConnect(m) /\ Steps(m)
    \/ MLocate(m) /\ Steps(m)
    \/ MTxFind(m) /\ Steps(m)
    \/ MBulkWrite(m) /\ Steps(m)
    \/ MFind(m) /\ Steps(m)
    \/ MUpdateOne(m) /\ Steps(m)
    \/ MDeleteMany(m) /\ Steps(m)
    \/ MEndSession(m) /\ Steps(m)
    \/ MClose(m) /\ Steps(m)

\* the operator's runs of the script are numbered in the order they start
NextRun(m) == m = "m1" \/ mpc["m1"] = "done"

\* SpecRateSeq: one rating request at a time, each run to completion
NextRateSeq ==
    \/ \E rq \in Requests :
         Quiescent /\ HStart("h1", rq[1], rq[2], rq[3]) /\ Begins("h1")
    \/ HSteps("h1")

SpecRateSeq == Init /\ [][NextRateSeq]_vars

\* requests at the edges of the validation: an off-step value, a negative
\* userId, a userId of 0 sent as the number and as the string "0", a missing
\* userId, an unknown movie, a value above the range
EdgeRequests ==
    { <<Num(10), Num(1), Num(43)>>, <<Num(11), Num(1), Num(45)>>,
      <<Num(10), Num(-1), Num(30)>>, <<Num(10), NumStr(0), Num(30)>>,
      <<Num(10), Num(0), Num(30)>>, <<Num(10), Undefined, Num(30)>>,
      <<Num(999), Num(1), Num(43)>>, <<Num(10), Num(1), Num(55)>> }

\* SpecInput: one rating request at a time, drawn from the edge requests
NextInput ==
    \/ \E rq \in EdgeRequests :
         Quiescent /\ HStart("h1", rq[1], rq[2], rq[3]) /\ Begins("h1")
    \/ HSteps("h1")

SpecInput == Init /\ [][NextInput]_vars

\* SpecSeq: rating requests and merge runs, one call at a time, each run to
\* completion
NextSeq ==
    \/ \E rq \in GoodRequests :
         Quiescent /\ HStart("h1", rq[1], rq[2], rq[3]) /\ Begins("h1")
    \/ HSteps("h1")
    \/ \E m \in Mergers, a \in MergeArgs :
         Quiescent /\ NextRun(m) /\ MStart(m, a[1], a[2]) /\ Begins(m)
    \/ \E m \in Mergers : MSteps(m)

SpecSeq == Init /\ [][NextSeq]_vars

\* SpecFail: one call at a time; any store call may reject
NextFail ==
    \/ \E rq \in GoodRequests :
         Quiescent /\ HStart("h1", rq[1], rq[2], rq[3]) /\ Begins("h1")
    \/ HSteps("h1")
    \/ \E m \in Mergers :
         Quiescent /\ NextRun(m) /\ MStart(m, "Alpha", "1999") /\ Begins(m)
    \/ \E m \in Mergers : MSteps(m)
    \/ HThrow("h1") /\ Steps("h1")
    \/ \E m \in Mergers : MThrow(m) /\ Steps(m)

SpecFail == Init /\ [][NextFail]_vars

\* SpecConc: the request handlers of the serving layer run concurrently, in any
\* interleaving of their store calls, and every call runs to completion
NextConc ==
    \/ \E h \in Handlers, rq \in GoodRequests :
         HStart(h, rq[1], rq[2], rq[3]) /\ Begins(h)
    \/ \E h \in Handlers : HSteps(h)

SpecConc == Init /\ [][NextConc]_vars

\* SpecRate: the same, and any store call may reject
NextRate ==
    \/ NextConc
    \/ \E h \in Handlers : HThrow(h) /\ Steps(h)

SpecRate == Init /\ [][NextRate]_vars

\* SpecMerge: a request handler and a merge run, in any interleaving of their
\* store calls; any store call may reject
NextMerge ==
    \/ \E rq \in GoodRequests :
         HStart("h1", rq[1], rq[2], rq[3]) /\ Begins("h1")
    \/ HSteps("h1")
    \/ HThrow("h1") /\ Steps("h1")
    \/ MStart("m1", "Alpha", "1999") /\ Begins("m1")
    \/ MSteps("m1")
    \/ MThrow("m1") /\ Steps("m1")

SpecMerge == Init /\ [][NextMerge]_vars

\* SpecRace: one rating request and one merge run of the group "Alpha (1999)",
\* in any interleaving of their store calls, each run to completion
NextRace ==
    \/ \E rq \in GoodRequests :
         calls = <<>> /\ HStart("h1", rq[1], rq[2], rq[3]) /\ Logs("h1")
    \/ HSteps("h1")
    \/ MStart("m1", "Alpha", "1999") /\ Begins("m1")
    \/ MSteps("m1")

SpecRace == Init /\ [][NextRace]_vars

\* most rating values one find returns to the aggregate computation
MaxLen == 4

\* rating values (tenths) the handler accepts: on the 0.5 step and off it
RatingInputs == {5, 6, 31, 50}

\* the find returns one more rating event; the aggregate of the array
Fetch(v) ==
    /\ Len(fetched) < MaxLen
    /\ fetched' = Append(fetched, v)
    /\ aggregate' = Aggregates(fetched')
    /\ UNCHANGED <<movies, ratings, lastUpdate, solo, preStore, store0, calls, fres>>
    /\ UNCHANGED <<hvars, mvars, cvars>>

\* the find, which has no sort, returns the same rating events with two
\* neighbours in the other order; the aggregate of the array
Reorder(i) ==
    /\ i \in 1..(Len(fetched) - 1)
    /\ fetched[i] # fetched[i + 1]
    /\ fetched' = [fetched EXCEPT ![i] = fetched[i + 1], ![i + 1] = fetched[i]]
    /\ aggregate' = Aggregates(fetched')
    /\ UNCHANGED <<movies, ratings, lastUpdate, solo, preStore, store0, calls, fres>>
    /\ UNCHANGED <<hvars, mvars, cvars>>

\* SpecAggregate: the aggregate computation alone, on every array of at most
\* MaxLen rating values in every order
InitAggregate == Init /\ ratings = <<>> /\ movies[12].year = 2000

NextAggregate ==
    \/ \E v \in RatingInputs : Fetch(v)
    \/ \E i \in 1..(MaxLen - 1) : Reorder(i)

SpecAggregate == InitAggregate /\ [][NextAggregate]_vars

\* argv <<title, year>> of the two admin scripts
AdminArgs == MergeArgs \cup {<<"Alpha", "999">>}

\* SpecFind: the operator runs find_duplicates.js and merge_duplicates.js, one
\* run at a time
InitFind == InitFrom(Catalogues \cup OddCatalogues)

NextFind ==
    \/ \E a \in AdminArgs : Quiescent /\ FindDuplicates(a[1], a[2])
    \/ \E a \in AdminArgs : Quiescent /\ MStart("m1", a[1], a[2]) /\ Begins("m1")
    \/ MSteps("m1")

SpecFind == InitFind /\ [][NextFind]_vars

(* ======================================================================= *)
(*                               Properties                                *)
(* ======================================================================= *)

\* the entity's stored (averageRating, ratingCount) is the aggregate over
\* exactly the rating events bound to its id in the store <<ms, rs>>
I1In(ms, rs, E) ==
    LET st == CalculateMovieStats(rs, E)
    IN /\ ms[E].averageRating = st.averageRating
       /\ ms[E].ratingCount = st.ratingCount

\* p's call ran alone, from a quiescent store, and has ended
RanAlone(p) == Quiescent /\ solo = p

\* C1 (P2): after any sequence of rating submissions, each run to completion
\* with no interleaving, every entity's stored aggregate is the aggregate over
\* exactly the rating events whose movieId is its id.
P2_Consistency ==
    Quiescent => \A E \in DOMAIN movies : I1In(movies, ratings, E)

\* a completed submission on an entity that now has several rating events
P2_Witness ==
    /\ RanAlone("h1")
    /\ hres["h1"].status = 201
    /\ hres["h1"].ratingCount >= 2
    /\ hres["h1"].averageRating.den > 1

\* the group a finished merge run worked on, and the rating events its records
\* held in the store <<ms, rs>>
GroupOf(m) == {mloc[m].primary} \cup Range(mloc[m].duplicates)

\* C2 (P3, merge conservation): after a merge commits, the survivor is bound
\* to exactly the rating events the group's records held before, its
\* ratingCount is their number, its average is the aggregate over them, and
\* the store holds the same rating events as before, only rebound.
P3_MergeConservation ==
    \A m \in Mergers :
      (RanAlone(m) /\ mres[m] = "Merged") =>
        LET pr == preStore[2]
            held == RatingIdsOf(pr, GroupOf(m))
        IN /\ RatingIdsOf(ratings, {mloc[m].primary}) = held
           /\ movies[mloc[m].primary].ratingCount = Cardinality(held)
           /\ I1In(movies, ratings, mloc[m].primary)
           /\ Len(ratings) = Len(pr)
           /\ \A i \in DOMAIN pr :
                ratings[i] = [pr[i] EXCEPT !.movieId =
                                IF i \in held THEN mloc[m].primary ELSE pr[i].movieId]

\* C3 (P5, atomicity): a merge run that ends in "Transaction aborted" leaves
\* the store (entity records, aggregates, rating bindings) as it was before
\* the call.
P5_AbortLeavesStore ==
    \A m \in Mergers :
      (RanAlone(m) /\ mres[m] = "Aborted") => <<movies, ratings>> = preStore

\* C4 (P4, idempotent merge): of two merge runs in sequence on the same key,
\* when the first ends Merged the second ends NoOp and changes nothing.
P4_IdempotentMerge ==
    (/\ mres["m1"] = "Merged"
     /\ mpc["m2"] = "done"
     /\ marg["m2"] = marg["m1"])
    => /\ mres["m2"] = "NoOp"
       /\ RanAlone("m2") => <<movies, ratings>> = preStore

\* the second run has just ended, on a store with rating events
P4_Witness ==
    /\ mres["m1"] = "Merged"
    /\ mres["m2"] = "NoOp"
    /\ marg["m2"] = marg["m1"]
    /\ RanAlone("m2")
    /\ Len(ratings) >= 2

\* the stores the two serial orders of a request rq and a merge run for key
\* can end in, from the store S
SerialOutcomes(S, rq, key) ==
    UNION { LET r == [rq EXCEPT !.timestamp = ts]
            IN { MergeEffect(RateEffect(S, r), key), RateEffect(MergeEffect(S, key), r) }
            : ts \in Timestamps }

\* C5: a merge run is serializable with a concurrent rating submission on a
\* record of its group: whatever the interleaving of their steps, the store
\* they leave is the one some serial order of the two leaves.
Merge_Serializable ==
    (calls # <<>> /\ hpc["h1"] = "idle" /\ mpc["m1"] = "done")
    => <<movies, ratings>> \in SerialOutcomes(store0, calls[1], marg["m1"])

\* C6 (as claimed): in every state with no call in flight, each entity's
\* stored aggregate is the aggregate over the rating events bound to its id,
\* also after concurrent submissions on one entity have all completed.
I1_AfterConcurrentCalls ==
    (/\ \A h \in Handlers : hpc[h] = "idle"
     /\ \A m \in Mergers : mpc[m] \in {"idle", "done"})
    => \A E \in DOMAIN movies :
         /\ movies[E].ratingCount = Cardinality(RatingIdsOf(ratings, {E}))
         /\ movies[E].averageRating = CalculateMovieStats(ratings, E).averageRating

\* C6 (amended): in every state with no rating submission in flight, each
\* entity's stored aggregate is the aggregate over the rating events that were
\* bound to its id at some moment up to now (the first k events of the store,
\* for some k), which after interleaved submissions need not be the current set.
I1_OfAnEarlierSet ==
    Quiescent =>
      \A E \in DOMAIN movies :
        \E k \in 0..Len(ratings) : I1In(movies, SubSeq(ratings, 1, k), E)

\* two submissions on one entity have both completed and its aggregate is stale
I1_StaleWitness ==
    /\ Quiescent
    /\ hres["h1"].status = 201 /\ hres["h2"].status = 201
    /\ hres["h1"].movieId = hres["h2"].movieId
    /\ ~I1In(movies, ratings, hres["h1"].movieId)

\* C7: after interleaved submissions on one entity, the aggregate on the
\* record is the one of the call that did its update last, and it is the
\* aggregate over the events bound to the entity when that call read them
\* back, its own new event among them.
LastWriter_Persists ==
    lastUpdate.status = 201 =>
      LET E == lastUpdate.movieId
      IN /\ movies[E].averageRating = lastUpdate.averageRating
         /\ movies[E].ratingCount = lastUpdate.ratingCount
         /\ \E k \in lastUpdate.newId..Len(ratings) :
              I1In(movies, SubSeq(ratings, 1, k), E)

\* both calls completed, and the one that updated last had read before the
\* other's insert: the record counts fewer events than are bound to it
LastWriter_Witness ==
    /\ Quiescent
    /\ hres["h1"].status = 201 /\ hres["h2"].status = 201
    /\ hres["h1"].movieId = hres["h2"].movieId
    /\ lastUpdate = hres["h1"]
    /\ hres["h1"].newId < hres["h2"].newId
    /\ movies[lastUpdate.movieId].ratingCount
         < Cardinality(RatingIdsOf(ratings, {lastUpdate.movieId}))

\* C8 (self-correction): whatever came before, a submission on E that runs
\* alone to completion leaves E's stored aggregate equal to the aggregate over
\* all rating events bound to E.
SelfCorrects ==
    \A h \in Handlers :
      (RanAlone(h) /\ hres[h].status = 201) => I1In(movies, ratings, hres[h].movieId)

\* ... from a store in which E's aggregate was stale
SelfCorrects_Witness ==
    /\ RanAlone("h1") /\ hres["h1"].status = 201
    /\ ~I1In(preStore[1], preStore[2], hres["h1"].movieId)

\* C9: a submission whose movieId resolves to no entity record is answered
\* 404 by the existence check, and the call writes nothing.
NotFound_WritesNothing ==
    /\ [](\A h \in Handlers :
            (RanAlone(h) /\ hres[h].status = 404) => <<movies, ratings>> = preStore)
    /\ [][\A h \in Handlers :
            (/\ hpc[h] = "findOne" /\ hpc'[h] # "findOne"
             /\ hreq[h].movieId \notin DOMAIN movies)
            => (hres'[h].status = 404 /\ UNCHANGED <<movies, ratings>>)]_vars

\* a 404, for the id of a duplicate that a merge has deleted
NotFound_Witness ==
    /\ RanAlone("h1") /\ hres["h1"].status = 404
    /\ hres["h1"].error = "Movie not found"
    /\ mres["m1"] = "Merged"
    /\ Len(ratings) >= 1

\* C10: a submission whose value lies outside [0.5, 5.0] is answered 400
\* before any store access, and the store is unchanged: no request with such
\* a value gets past validation.
OutOfRange_Rejected ==
    /\ [](\A h \in Handlers :
            (RanAlone(h) /\ hres[h].status = 400)
            => (hpc[h] = "idle" /\ <<movies, ratings>> = preStore))
    /\ [][\A h \in Handlers :
            (hpc[h] = "idle" /\ hpc'[h] # "idle")
            => (hreq'[h].rating >= 5 /\ hreq'[h].rating <= 50)]_vars

\* the 400 of the range check
OutOfRange_Witness ==
    /\ RanAlone("h1") /\ hres["h1"].status = 400
    /\ hres["h1"].error = "Rating must be between 0.5 and 5.0"
    /\ Len(ratings) >= 1

\* the values of the fixed increment: 0.5, 1.0, ..., 5.0
RatingSteps == {5 * k : k \in 1..10}

\* the rating events written since the store was loaded
Written == {i \in DOMAIN ratings : i > Len(store0[2])}

\* C11: a submission is accepted only when its value lies in [0.5, 5.0] at the
\* 0.5 increment, so every rating event a submission wrote carries a value
\* of {0.5, 1.0, ..., 5.0}.
OnlyHalfSteps_Persisted ==
    \A i \in Written : ratings[i].rating \in RatingSteps

\* C12: a submission whose userId is zero, negative or missing is answered
\* 400 and writes nothing, so every rating event a submission wrote carries a
\* positive userId.
OnlyPositiveRater_Persisted ==
    \A i \in Written : ratings[i].userId > 0

\* C13: the rounding policy is the same at both call sites: the average a
\* merge writes onto the survivor is the average a rating submission would
\* write for an entity bound to the same rating events (the mean rounded to
\* 2 decimal places; 5.0, 3.0, 3.0 give 3.67).
Rounding_SameAtBothSites ==
    \A m \in Mergers :
      (RanAlone(m) /\ mres[m] = "Merged") =>
        LET allRatings == RatingValuesOf(ratings, mloc[m].primary)
        IN Len(allRatings) > 0 =>
             movies[mloc[m].primary].averageRating
               = SubmitAggregate(allRatings).averageRating

\* C14: the aggregate a submission computes has count = the number of rating
\* events bound to the entity when it reads them back, and average = their
\* mean rounded to 2 decimal places, halves away from zero; for an empty set
\* it is count 0, average 0.
Aggregate_OnSubmission ==
    [][\A h \in Handlers :
         (hpc[h] = "find" /\ hpc'[h] = "updateOne") =>
           LET bound == RatingValuesOf(ratings, hreq[h].movieId)
               total == Reduce(bound)
               n == Len(bound)
           IN /\ hloc'[h].ratingCount = n
              /\ IF n = 0 THEN hloc'[h].averageRating = Zero
                 ELSE \E c \in 0..500 :
                        /\ hloc'[h].averageRating = Frac(c, 100)
                        /\ -n < 2 * n * c - 20 * total
                        /\ 2 * n * c - 20 * total <= n]_vars

\* the multiset of the values of an array
BagOf(s) == [v \in Range(s) |-> Cardinality({i \in DOMAIN s : s[i] = v})]

\* C15 (P1, determinism): for a fixed multiset of rating values the aggregate
\* computation (sum by reduce, divide by the length, round) gives the same
\* (average, count) for every order of the array, at both call sites.
P1_Determinism ==
    [][BagOf(fetched') = BagOf(fetched) => aggregate' = aggregate]_vars

\* on values of the 0.5 step the doubles are exact: the handler's average is
\* the exactly rounded mean the store model uses
Doubles_ExactOnSteps ==
    (fetched # <<>> /\ Range(fetched) \subseteq RatingSteps) =>
      LET exact == RoundedMean(Reduce(fetched), Len(fetched))
      IN /\ aggregate.submit.averageRating
              = DoubleDiv(DoubleOf((exact.num * 100) \div exact.den), 100)
         /\ \A i \in 1..(Len(fetched) - 1) :
              Aggregates([fetched EXCEPT ![i] = fetched[i + 1], ![i + 1] = fetched[i]])
                = aggregate

\* the records of the store <<ms, rs>> that match a search key
Matching(ms, key) ==
    {id \in DOMAIN ms : ms[id].title = key.title /\ ms[id].year = key.year}

\* C16: the survivor of a merge is the record with the smallest movieId among
\* the records matching the key, every other matching record is a duplicate;
\* after a successful merge the survivor still exists under its movieId and
\* every duplicate record is deleted.
Survivor_IsSmallest ==
    \A m \in Mergers :
      (RanAlone(m) /\ mres[m] = "Merged") =>
        LET group == Matching(preStore[1], marg[m])
            primary == mloc[m].primary
        IN /\ primary \in group
           /\ \A id \in group : primary <= id
           /\ Range(mloc[m].duplicates) = group \ {primary}
           /\ primary \in DOMAIN movies
           /\ movies[primary].title = preStore[1][primary].title
           /\ movies[primary].year = preStore[1][primary].year
           /\ \A id \in group \ {primary} : id \notin DOMAIN movies

\* a merge of a group of three records, with rating events, has committed
Survivor_Witness ==
    /\ RanAlone("m1") /\ mres["m1"] = "Merged"
    /\ Len(mloc["m1"].duplicates) = 2
    /\ mloc["m1"].primary = 10
    /\ DOMAIN movies = {10}
    /\ Len(ratings) >= 2

\* a run of find_duplicates.js has just reported
Reports == fres' # fres /\ fres'.status \in {"Found", "None"}

\* C17: find_duplicates reports the records sharing the key as a sequence in
\* ascending movieId order, so that its first element is the record a merge
\* would keep as survivor.
Found_Ascending ==
    [][Reports => fres'.movies = SortAsc(Range(fres'.movies))]_vars

\* C18: key matching is exact and uniform: the set of records find_duplicates
\* reports for <title> <year> is the set merge_duplicates locates as the group
\* for the same arguments on the same store (title = "<title> (<year>)" and
\* year); neither reports a record the other ignores.
Match_Uniform ==
    [][Reports => Range(fres'.movies) = Matching(movies, fres'.key)]_vars

\* C19 (I2): once a merge run on a key has completed, Merged or NoOp, the
\* store holds at most one entity record with that key.
I2_OnePerKey ==
    \A m \in Mergers :
      (mpc[m] = "done" /\ mres[m] \in {"Merged", "NoOp"})
      => Cardinality(Matching(movies, marg[m])) <= 1

\* a group merged into one record, then a NoOp run on a film without duplicates
I2_Witness ==
    /\ mres["m1"] = "Merged" /\ mres["m2"] = "NoOp"
    /\ marg["m1"] # marg["m2"]
    /\ Len(ratings) >= 2
    /\ Cardinality(Matching(movies, marg["m1"])) = 1
    /\ Cardinality(Matching(movies, marg["m2"])) = 1

\* C20: no call commits partially: a rating submission that fails after its
\* insertOne and before its updateOne has applied (the read-back or the
\* update throws) leaves the store as if it had not been called, and so does
\* a merge run that does not commit.
NoPartialCommit ==
    /\ \A h \in Handlers :
         (RanAlone(h) /\ hres[h].status = 500) => <<movies, ratings>> = preStore
    /\ \A m \in Mergers :
         (RanAlone(m) /\ mres[m] \in {"Aborted", "Error"}) => <<movies, ratings>> = preStore

\* the one-function forms agree with the step-by-step calls run alone
Effects_Agree ==
    /\ \A m \in Mergers :
         (RanAlone(m) /\ mres[m] \in {"Merged", "NoOp"})
         => <<movies, ratings>> = MergeEffect(preStore, marg[m])
    /\ \A h \in Handlers :
         (RanAlone(h) /\ hres[h].status = 201)
         => <<movies, ratings>> = RateEffect(preStore, ratings[hres[h].newId])

\* C21: when the duplicates of a group hold no rating events, a merge run
\* writes no rating event, still deletes every duplicate, and leaves the
\* survivor's stored (averageRating, ratingCount), which satisfied I1 before the
\* run, as it was.
ZeroEvents_AggregateKept ==
    \A m \in Mergers :
      (/\ RanAlone(m)
       /\ mres[m] = "Merged"
       /\ RatingIdsOf(preStore[2], Range(mloc[m].duplicates)) = {}
       /\ I1In(preStore[1], preStore[2], mloc[m].primary))
      => /\ ratings = preStore[2]
         /\ Range(mloc[m].duplicates) \cap DOMAIN movies = {}
         /\ movies[mloc[m].primary].ratingCount = preStore[1][mloc[m].primary].ratingCount
         /\ movies[mloc[m].primary].averageRating = preStore[1][mloc[m].primary].averageRating

\* requests on each record of the catalogue, the one outside the group included
FrameRequests == {<<Num(id), Num(2), Num(40)>> : id \in {10, 11, 12}}

\* SpecFrame: rating requests on every record and merge runs of the group
\* "Alpha (1999)", one call at a time, each run to completion
NextFrame ==
    \/ \E rq \in FrameRequests :
         Quiescent /\ HStart("h1", rq[1], rq[2], rq[3]) /\ Begins("h1")
    \/ HSteps("h1")
    \/ \E m \in Mergers :
         Quiescent /\ NextRun(m) /\ MStart(m, "Alpha", "1999") /\ Begins(m)
    \/ \E m \in Mergers : MSteps(m)

SpecFrame == Init /\ [][NextFrame]_vars

\* C22 (frame of a successful merge): a rating event bound to the survivor is
\* as it was; a reassigned event differs from what it was in its movieId only;
\* the records and the rating events of movies outside the group are as they
\* were; the survivor keeps its title and year.
Merge_Frame ==
    \A m \in Mergers :
      (RanAlone(m) /\ mres[m] = "Merged") =>
        LET pm == preStore[1]
            pr == preStore[2]
            survivor == mloc[m].primary
        IN /\ DOMAIN ratings = DOMAIN pr
           /\ \A i \in DOMAIN pr :
                IF pr[i].movieId \in Range(mloc[m].duplicates)
                THEN /\ ratings[i].userId = pr[i].userId
                     /\ ratings[i].rating = pr[i].rating
                     /\ ratings[i].timestamp = pr[i].timestamp
                ELSE ratings[i] = pr[i]
           /\ \A id \in DOMAIN pm \ GroupOf(m) :
                id \in DOMAIN movies /\ movies[id] = pm[id]
           /\ movies[survivor].title = pm[survivor].title
           /\ movies[survivor].year = pm[survivor].year

\* a run has merged a group whose survivor and whose duplicate each held a
\* rating event, beside a movie outside the group that holds one too
Merge_Frame_Witness ==
    \E m \in Mergers :
      /\ RanAlone(m)
      /\ mres[m] = "Merged"
      /\ \E i, j, k \in DOMAIN preStore[2] :
           /\ preStore[2][i].movieId = mloc[m].primary
           /\ preStore[2][j].movieId \in Range(mloc[m].duplicates)
           /\ preStore[2][k].movieId \in DOMAIN movies \ GroupOf(m)

\* the calls of a merge run in flight return or reject
MRun(m) ==
    \/ MSteps(m)
    \/ MThrow(m) /\ Steps(m)
    \/ MRetry(m) /\ Steps(m)
    \/ MReleaseThrow(m) /\ Steps(m)

\* SpecScript: the operator runs merge_duplicates.js, one run at a time; any
\* call may reject, and every call in flight eventually returns or rejects
NextScript ==
    \/ \E m \in Mergers, a \in MergeArgs :
         Quiescent /\ NextRun(m) /\ MStart(m, a[1], a[2]) /\ Begins(m)
    \/ \E m \in Mergers : MRun(m)

SpecScript == Init /\ [][NextScript]_vars /\ \A m \in Mergers : WF_vars(MRun(m))

\* the run's last transaction has been started and neither committed nor aborted
TxOpen(m) ==
    LET tx == SelectSeq(mlog[m], LAMBDA e : e \in {"startTransaction", "commitTransaction",
                                                     "abortTransaction"})
    IN Len(tx) > 0 /\ tx[Len(tx)] = "startTransaction"

\* C23 (as claimed): the terminal state of every mergeDuplicates call is one
\* of NoOp, Merged and Aborted.
Terminal_OneOfThree ==
    \A m \in Mergers : mpc[m] = "done" => mres[m] \in {"NoOp", "Merged", "Aborted"}

\* C23 (amended): every mergeDuplicates call eventually ends, in one terminal
\* state that does not change afterwards: Usage (arguments missing), Error
\* (connect or the locate query rejected), NoOp, the three with no transaction
\* started, or Merged or Aborted; no run ends or stays with its transaction open.
Terminal_OneOfFive ==
    /\ [](\A m \in Mergers :
            /\ mpc[m] = "done" =>
                 /\ mres[m] \in {"Usage", "Error", "NoOp", "Merged", "Aborted"}
                 /\ ~TxOpen(m)
            /\ mres[m] \in {"Usage", "Error", "NoOp"} => Attempts(m) = 0)
    /\ [][\A m \in Mergers : mpc[m] = "done" => mpc'[m] = "done" /\ mres'[m] = mres[m]]_vars
    /\ \A m \in Mergers : (mpc[m] # "idle") ~> (mpc[m] = "done" /\ ~TxOpen(m))

\* a run has ended Aborted after the callback was executed twice, and another
\* has ended on a rejected connect or locate query
Terminal_Witness ==
    /\ mpc["m1"] = "done" /\ mres["m1"] = "Aborted" /\ Attempts("m1") >= 2
    /\ mpc["m2"] = "done" /\ mres["m2"] = "Error"

\* C24 (retry safety): a run that ends Merged, whether its callback was
\* executed once or again after an abort, and whether or not an earlier run on
\* the same key was aborted part-way, leaves the store a single successful run
\* on the initial store leaves: every rating event of the group bound to the
\* survivor once, none lost, the aggregate over them, the duplicates deleted.
Retry_Safe ==
    /\ (mpc["m1"] = "done" /\ mres["m1"] = "Merged" /\ mpc["m2"] = "idle")
       => <<movies, ratings>> = MergeEffect(store0, marg["m1"])
    /\ (/\ mres["m1"] = "Aborted"
        /\ mpc["m2"] = "done"
        /\ marg["m2"] = marg["m1"]
        /\ mres["m2"] \in {"Merged", "NoOp"})
       => <<movies, ratings>> = MergeEffect(store0, marg["m1"])

\* the first run was aborted after it had changed the store; the second, on
\* the same key, executed its callback twice and ended Merged
Retry_Witness ==
    /\ mres["m1"] = "Aborted"
    /\ mres["m2"] = "Merged"
    /\ mpc["m2"] = "done"
    /\ marg["m2"] = marg["m1"]
    /\ Attempts("m2") >= 2
    /\ RanAlone("m2")
    /\ preStore # store0
    /\ Len(ratings) >= 2

\* caller c's call returns in this step without an error
Returns(c) ==
    /\ cpc'[c] = "idle"
    /\ cres'[c].kind \in {"handles", "db", "closed"}
    /\ <<cpc[c], cres[c]>> # <<cpc'[c], cres'[c]>>

\* C25 (connection lifecycle, calls made one at a time): getDb throws unless
\* a connect has succeeded since the last completed close, in which case it
\* returns the shared db; a connect made while that holds returns the handles
\* the module already has and constructs no client; the handles stay the same
\* until a close completes; a close that completes leaves both handles null and
\* no client open, and a close with no client does nothing; after every call
\* that returns without an error client and db are both null or both set.
Lifecycle_Sequential ==
    /\ [][\A c \in Callers :
            CGetDb(c) => cres'[c] = IF since THEN Handle("db", 0, Module.client)
                                    ELSE Handle("error", 0, 0)]_vars
    /\ [][\A c \in Callers :
            (CConnect(c) /\ since) =>
               /\ cres'[c] = Handle("handles", Module.client, Module.db)
               /\ cpc'[c] = "idle"
               /\ conn' = conn]_vars
    /\ [][(since /\ since') => conn' = conn]_vars
    /\ [][\A c \in Callers :
            (cpc[c] = "clientClose" /\ Returns(c)) =>
               Module' = [NoConnection EXCEPT !.created = Module.created]]_vars
    /\ [][\A c \in Callers :
            (CClose(c) /\ Module.client = 0) => (conn' = conn /\ cpc' = cpc)]_vars
    /\ [][\A c \in Callers :
            Returns(c) => (Module'.client = 0 <=> Module'.db = 0)]_vars

\* after connect, close and connect again, a further connect has returned the
\* second client's handles and getDb its db
Lifecycle_Witness ==
    /\ NoCaller
    /\ since
    /\ Module.created = 2
    /\ cres["c1"] = Handle("handles", 2, 2)
    /\ cres["c2"] = Handle("db", 0, 2)

\* C29: overlapping calls of connect construct and open at most one client;
\* each returns the handles of that one client; a close that completes leaves
\* no client open; and a call whose client.connect() rejects does not leave
\* the client it made in the module state.
Connect_Once ==
    /\ [](Cardinality(Module.live) <= 1)
    /\ [][\A c \in Callers :
            (cres'[c].kind = "handles" /\ cres'[c] # cres[c]) =>
               /\ Module'.live = {cres'[c].client}
               /\ cres'[c].db = cres'[c].client]_vars
    /\ [][\A c \in Callers :
            (cpc[c] = "clientClose" /\ Returns(c)) => Module'.live = {}]_vars
    /\ [][\A c \in Callers :
            (cpc[c] = "clientConnect" /\ CThrow(c)) => Module'.client # cloc[c]]_vars

\* how often the run has made the call e
Made(m, e) == Cardinality({i \in DOMAIN mlog[m] : mlog[m][i] = e})

\* C30 (resource release): in every run of the script at most one session is
\* started; close() is called only after every started session was ended; and
\* when the run is over, whatever its terminal path, the session it started was
\* ended exactly once, close() was called exactly once and, unless
\* client.close() rejected, no client of the run is open.
Release_Once ==
    \A m \in Mergers :
      /\ Made(m, "endSession") <= Made(m, "startSession")
      /\ Made(m, "startSession") <= 1
      /\ Made(m, "connect") <= 1
      /\ Made(m, "close") >= 1 =>
           /\ Made(m, "endSession") = Made(m, "startSession")
           /\ mlog[m][Len(mlog[m])] = "close"
      /\ mpc[m] = "done" =>
           /\ Made(m, "close") = 1
           /\ Made(m, "endSession") = Made(m, "startSession")
           /\ mres[m] \in {"Merged", "Aborted"} <=> Made(m, "startSession") = 1
           /\ conn[m].client = 0 => conn[m].live = {}

\* one run has ended Aborted, its session ended and its connection closed;
\* another has ended on a rejected client.connect(), its client closed
Release_Witness ==
    /\ mpc["m1"] = "done" /\ mres["m1"] = "Aborted"
    /\ mlog["m1"] = <<"connect", "startSession", "startTransaction", "abortTransaction",
                      "endSession", "close">>
    /\ conn["m1"] = [NoConnection EXCEPT !.created = 1]
    /\ mpc["m2"] = "done" /\ mres["m2"] = "Error"
    /\ mlog["m2"] = <<"close">>
    /\ conn["m2"] = [NoConnection EXCEPT !.created = 1]

\* C26 (referential integrity): once a rating submission and a merge run
\* that interleaved have both ended, every rating event in the store is bound
\* to the movieId of a record that exists.
Bound_ToExisting ==
    (hpc["h1"] = "idle" /\ mpc["m1"] = "done")
    => \A i \in DOMAIN ratings : ratings[i].movieId \in DOMAIN movies

\* C27: every 201 response of a rating submission, whatever merge run it
\* interleaves with, reports a ratingCount of at least 1 and a numeric
\* averageRating, which are the values its update wrote to a record that exists.
Response_Defined ==
    [][\A h \in Handlers :
         (hpc[h] = "updateOne" /\ hres'[h].status = 201) =>
            /\ hres'[h].ratingCount >= 1
            /\ hres'[h].averageRating # NaN
            /\ hres'[h].movieId \in DOMAIN movies'
            /\ movies'[hres'[h].movieId].averageRating = hres'[h].averageRating
            /\ movies'[hres'[h].movieId].ratingCount = hres'[h].ratingCount]_vars

\* SpecTwoRuns: two runs of merge_duplicates.js on "Alpha (1999)" at the same
\* time, in any interleaving of their calls, each run to completion
NextTwoRuns ==
    \/ \E m \in Mergers : MStart(m, "Alpha", "1999") /\ Begins(m)
    \/ \E m \in Mergers : MSteps(m)

SpecTwoRuns == Init /\ [][NextTwoRuns]_vars

\* C28: two runs on the same key that overlap leave, once both have ended,
\* the store a single run leaves: one record of the key, every rating event of
\* the group bound to it once, its aggregate over them; and neither run ever
\* deletes the survivor.
TwoRuns_AsOne ==
    /\ 10 \in DOMAIN movies
    /\ (mpc["m1"] = "done" /\ mpc["m2"] = "done")
       => /\ <<movies, ratings>> = MergeEffect(store0, marg["m1"])
          /\ Cardinality(Matching(movies, marg["m1"])) = 1

\* both runs located the group before either deleted a record, both ended
\* Merged, and rating events were moved
TwoRuns_Witness ==
    /\ mpc["m1"] = "done" /\ mpc["m2"] = "done"
    /\ mres["m1"] = "Merged" /\ mres["m2"] = "Merged"
    /\ ratings # store0[2]
    /\ Len(ratings) >= 2

====
